---- MODULE Spec2Model ----
(***************************************************************************)
(* RAJA loop dispatch and reduction core.                                  *)
(*                                                                         *)
(*   includes/RAJA/forall_cilk_icc.hxx           Cilk Plus forall,         *)
(*        forall_sum, forall_minloc, forall_maxloc over ranges, strided    *)
(*        ranges, indirection arrays and hybrid (segmented) index sets     *)
(*   include/RAJA/policy/openmp/forall_param.hpp  OpenMP forall_impl with  *)
(*        reduction parameters                                             *)
(*                                                                         *)
(* A call is a frame.  Frame 0 is the call made by the caller; for a       *)
(* hybrid index set frame 0 is the cilk_for over the segments and frame    *)
(* isi (1..num_seg) is the inner call the switch makes for segment isi.    *)
(* The workers of the runtime are sequential: a worker executes one        *)
(* strand at a time.  A worker at the head of a cilk_for runs its          *)
(* iterations in order; an idle worker may steal any other iteration that  *)
(* is still to run; and the code after a cilk_for is continued by the      *)
(* worker that is last to reach its implicit sync.  Every read and write   *)
(* of a variable that several strands can reach is a step of its own.      *)
(***************************************************************************)
EXTENDS Integers, Sequences, FiniteSets, TLC

\* ------------------------------------------------------------------ bounds
\* number of workers the runtime may have (__cilkrts_get_nworkers)
MaxWorkers == 2
\* indices are 0 .. MaxIdx-1; begin and end range over 0 .. MaxIdx
MaxIdx == 3
\* number of segments of a hybrid index set
MaxSegs == 2
\* strides of a strided range are 1 .. MaxStride
MaxStride == 3
\* length of the longest indirection array
MaxLen == 2
\* number of segments where a forall_sum's slot indices are followed
MaxSumSegs == 1

\* value of a value-initialised T: what cilk::reducer_min_index<Index_type,T>
\* and reducer_max_index hold (with is_set false) before the first calc_min
ReducerDefault == 0

Workers == 0 .. (MaxWorkers - 1)
Frames  == 0 .. MaxSegs
\* values of the loop variable of any frame (ii, k or isi)
LoopVars == 0 .. (MaxIdx + MaxSegs)
\* candidate values a loop body proposes, and prior accumulator values
Vals == {-1, 0, 1}

VARIABLES
  cfg,        \* the call: backend, entry point, policy, index set, loop body
  sum,        \* caller's *sum
  min,        \* caller's *min (*max for forall_maxloc)
  loc,        \* caller's *loc
  count,      \* count[i]: number of loop_body invocations with index i
  f_pc,       \* per frame: "none", "loop", "post" (after the loop), "done"
  f_todo,     \* per frame: loop-variable values whose iteration has not started
  f_slot,     \* per segment frame: the i of the &sum_tmp[i] it was handed
  f_i,        \* per frame: the i of the merge loop
  sum_tmp,    \* per frame: T sum_tmp[nthreads]
  min_tmp,    \* per frame: T min_tmp (max_tmp for forall_maxloc)
  loc_tmp,    \* per frame: Index_type loc_tmp
  reduction,  \* per frame: the reducer, as the view each iteration produced
  w_pc,       \* per worker: the step it is at ("idle": looking for work;
              \* "loop": at the head of the cilk_for of w_frame)
  w_frame,    \* per worker: the frame it is executing in
  w_x,        \* per worker: the loop variable of the iteration it executes
  w_reg,      \* per worker: a value it has read and not yet written back
  f_params    \* OpenMP: the value of the reduction parameter of forall_impl

vars == <<cfg, sum, min, loc, count, f_pc, f_todo, f_slot, f_i, sum_tmp,
          min_tmp, loc_tmp, reduction, w_pc, w_frame, w_x, w_reg, f_params>>

\* ------------------------------------------------------------- index sets
RangeISet(b, e) ==
  [type |-> "Range", begin |-> b, end |-> e, stride |-> 1, idx |-> <<>>]

RangeStrideISet(b, e, s) ==
  [type |-> "RangeStride", begin |-> b, end |-> e, stride |-> s, idx |-> <<>>]

UnstructuredISet(ix) ==
  [type |-> "Unstructured", begin |-> 0, end |-> Len(ix), stride |-> 1, idx |-> ix]

\* a loop over a strided range that steps by one
IterSpaceUnitStep(it) == {ii \in 0 .. MaxIdx : it.begin <= ii /\ ii < it.end}

\* the values the loop variable of the flat loop over `it` takes:
\*   for ( ii = begin ; ii < end ; ++ii ), ( ... ; ii += stride ),
\*   for ( k = 0 ; k < len ; ++k )
IterSpace(it) ==
  CASE it.type = "Range" ->
         {ii \in 0 .. MaxIdx : it.begin <= ii /\ ii < it.end}
    [] it.type = "RangeStride" ->
         {ii \in 0 .. MaxIdx : /\ ii < it.end
                               /\ \E j \in 0 .. MaxIdx : ii = it.begin + j * it.stride}
    [] OTHER ->
         {k \in 0 .. MaxIdx : k < Len(it.idx)}

\* (mutant of BodyArg) the loop variable itself, also for an indirection
\* array
BodyArgPosition(it, x) == x

\* the index handed to loop_body for loop variable x: ii, or idx[k]
BodyArg(it, x) ==
  IF it.type = "Unstructured" THEN it.idx[x + 1] ELSE x

\* is.getNumSegments(), is.getSegment(isi)
getNumSegments(is) == Len(is)

getSegment(is, isi) == is[isi]

\* ------------------------------------------------------------ the call
NumSeg == IF cfg.segmented THEN getNumSegments(cfg.is) ELSE 0

\* the iterable frame f loops over (frame 0 of a flat call, frame isi of a
\* segmented one)
Iter(f) == IF cfg.segmented THEN getSegment(cfg.is, f) ELSE cfg.is[1]

\* __cilkrts_get_nworkers() / the OpenMP team size
nthreads == cfg.nthreads

\* a runtime with more workers than __cilkrts_get_nworkers() reports
AllWorkers == 0 .. (MaxWorkers - 1)

Active == 0 .. (nthreads - 1)

IsMinMax == cfg.op \in {"forall_minloc", "forall_maxloc"}

\* a comparison that also accepts equal values
CompOrEqual(a, b) == IF cfg.op = "forall_maxloc" THEN a >= b ELSE a <= b

\* the comparison of the entry point: < for minloc, > for maxloc
Comp(a, b) == IF cfg.op = "forall_maxloc" THEN a > b ELSE a < b

\* the candidate the loop body proposes at index i
v(i) == cfg.v[i]

\* ------------------------------------------------------------ the reducer
\* cilk::reducer_min_index / reducer_max_index.  A view is (is_set, index,
\* value).  The runtime gives a stolen strand a fresh view and merges the views
\* in the serial order of the loop with reduce, so the reducer's value is the
\* left-to-right reduction of the views the iterations produced.
EmptyView == [set |-> FALSE, index |-> 0, value |-> ReducerDefault]

NoViews == [x \in LoopVars |-> EmptyView]

\* calc_min( index, value ) / calc_max( index, value ) on a view
calc(view, index, value) ==
  IF ~view.set \/ Comp(value, view.value)
    THEN [set |-> TRUE, index |-> index, value |-> value]
    ELSE view

\* reduce(left, right): the right view replaces the left one only when it is
\* strictly better
reduce(left, right) ==
  IF right.set THEN calc(left, right.index, right.value) ELSE left

RECURSIVE ReduceFrom(_, _, _)
ReduceFrom(views, x, acc) ==
  IF x \notin LoopVars THEN acc
  ELSE ReduceFrom(views, x + 1, reduce(acc, views[x]))

\* reduction.get_value(), reduction.get_index()
get_value(views) == ReduceFrom(views, 0, EmptyView).value

get_index(views) == ReduceFrom(views, 0, EmptyView).index

\* ------------------------------------------------------------- frames
\* the loop variable's values of frame f: the segments for the cilk_for over
\* a hybrid index set, the iteration space of the iterable otherwise
LoopSpace(f) ==
  IF cfg.segmented /\ f = 0 THEN 1 .. NumSeg ELSE IterSpace(Iter(f))

\* steps of a worker that are inside one iteration of a flat loop
BodyPcs == {"body", "body_wr", "body_cmp", "body_wmin", "body_wloc", "calc"}

\* the first step after the loop of an entry point
PostLoopPc ==
  CASE cfg.op = "forall_sum" -> "merge_rd"
    [] IsMinMax -> "fin_cmp"
    [] OTHER -> "ret"

\* the least element of a non-empty set of loop-variable values
Lowest(S) == CHOOSE m \in S : \A n \in S : m <= n

\* worker u is at the head of the cilk_for of frame f
AtHead(u, f) == w_pc[u] = "loop" /\ w_frame[u] = f

\* worker w may start iteration x of the cilk_for of frame f: the next one
\* in order when it is at the head of that loop; when it is idle, a stolen
\* one, which is never the one a worker at the head of the loop runs next
Takes(w, f, x) ==
  /\ x \in f_todo[f]
  /\ IF AtHead(w, f)
       THEN x = Lowest(f_todo[f])
       ELSE /\ w_pc[w] = "idle"
            /\ ~(x = Lowest(f_todo[f]) /\ \E u \in Active : AtHead(u, f))

\* a sync that lets a worker through as soon as every iteration has been
\* started
LoopDoneNoWait(f, w) == f_todo[f] = {}

\* worker w is the last to reach the sync of the flat cilk_for of frame f:
\* every iteration has been started and no other worker is inside one or
\* at the head of the loop
LoopDone(f, w) ==
  /\ f_todo[f] = {}
  /\ \A u \in Active \ {w} :
       ~(w_frame[u] = f /\ w_pc[u] \in BodyPcs \cup {"loop"})

\* (mutant of SegLoopDone) a sync that also waits for the segments of the
\* worker that has reached it
SegLoopDoneAll(w, own) ==
  /\ f_todo[0] = {}
  /\ \A g \in 1 .. NumSeg : f_pc[g] = "done"
  /\ \A u \in Active \ {w} : ~AtHead(u, 0)

\* worker w is the last to reach the sync of the cilk_for over segments:
\* every segment has been started, every one but those in `own` has ended
\* and no other worker is at the head of the loop
SegLoopDone(w, own) ==
  /\ f_todo[0] = {}
  /\ \A g \in (1 .. NumSeg) \ own : f_pc[g] = "done"
  /\ \A u \in Active \ {w} : ~AtHead(u, 0)

\* what *sum, *min, *loc of frame f point to: the caller's variables for
\* frame 0, sum_tmp[slot] / min_tmp / loc_tmp of frame 0 for a segment's call
TargetSum(f) == IF f = 0 THEN sum ELSE sum_tmp[0][f_slot[f]]

TargetMin(f) == IF f = 0 THEN min ELSE min_tmp[0]

TargetLoc(f) == IF f = 0 THEN loc ELSE loc_tmp[0]

\* (mutant of HasCase) the _Range_ case is missing from the switch
HasCaseNoRange(type) == type = "Unstructured"

\* the switch on seg.m_type: the kinds that have a case (the _RangeStride_
\* case is compiled out with #if 0)
HasCase(type) == type \in {"Range", "Unstructured"}

\* slots of which only the first is set to 0, the others keeping a value
StaleSlots == [i \in Workers |-> IF i = 0 THEN 0 ELSE 1]

\* T sum_tmp[nthreads], every entry set to 0
ZeroSlots == [i \in Workers |-> 0]

\* (mutant of MergeSum) *sum = sum_tmp[i]: the slot replaces the total
MergeSumAssigns(old, slot) == slot

\* *sum += sum_tmp[i], given the value read from *sum
MergeSum(old, slot) == old + slot

\* the loop body of forall_sum: *slot += v(i), given the value read from *slot
BodySum(old, i) == old + v(i)

\* (mutant of Started) the started iteration stays in the set of iterations
\* to run
StartedStays(todo, x) == todo

\* the set of iterations left once x has been started
Started(todo, x) == todo \ {x}

\* worker w goes on after its iteration of flat frame f: back to the head
\* of the loop while iterations are left; otherwise the last one to reach
\* the sync continues with the code after the loop and any other is idle
Finish(w, f) ==
  /\ w_x' = [w_x EXCEPT ![w] = 0]
  /\ IF f_todo[f] # {}
       THEN /\ w_pc' = [w_pc EXCEPT ![w] = "loop"]
            /\ w_frame' = [w_frame EXCEPT ![w] = f]
            /\ f_pc' = f_pc
       ELSE IF LoopDone(f, w)
         THEN /\ w_pc' = [w_pc EXCEPT ![w] = PostLoopPc]
              /\ w_frame' = [w_frame EXCEPT ![w] = f]
              /\ f_pc' = [f_pc EXCEPT ![f] = "post"]
         ELSE /\ w_pc' = [w_pc EXCEPT ![w] = "idle"]
              /\ w_frame' = [w_frame EXCEPT ![w] = 0]
              /\ f_pc' = f_pc

\* the prologue of an entry point, run by worker w in frame f, with `todo`
\* the iterations left in the other frames:
\*   sum:     nthreads = __cilkrts_get_nworkers(); sum_tmp[i] = 0
\*   min/max: min_tmp = *min; loc_tmp = *loc; reducer default-constructed
\* and worker w is at the head of its cilk_for
Enter(w, f, todo) ==
  /\ f_todo' = [todo EXCEPT ![f] = LoopSpace(f)]
  /\ sum_tmp' = IF cfg.op = "forall_sum"
                  THEN [sum_tmp EXCEPT ![f] = ZeroSlots] ELSE sum_tmp
  /\ min_tmp' = IF IsMinMax
                  THEN [min_tmp EXCEPT ![f] = TargetMin(f)] ELSE min_tmp
  /\ loc_tmp' = IF IsMinMax
                  THEN [loc_tmp EXCEPT ![f] = TargetLoc(f)] ELSE loc_tmp
  /\ reduction' = [reduction EXCEPT ![f] = NoViews]
  /\ f_i' = [f_i EXCEPT ![f] = 0]
  /\ f_pc' = [f_pc EXCEPT ![f] = "loop"]
  /\ w_pc' = [w_pc EXCEPT ![w] = "loop"]
  /\ w_frame' = [w_frame EXCEPT ![w] = f]

\* ------------------------------------------------- Cilk Plus entry points
\* The caller (worker 0) calls the entry point cfg.op names.
Call ==
  /\ cfg.backend = "cilk"
  /\ f_pc[0] = "none"
  /\ Enter(0, 0, f_todo)
  /\ UNCHANGED <<cfg, f_params, sum, min, loc, count, f_slot, w_x, w_reg>>

\* Worker w starts the iteration for segment isi of the cilk_for over the
\* segments:
\* switch ( seg.m_type ) calls the inner entry point for a kind that has a
\* case, handing it &sum_tmp[__cilkrts_get_worker_number()] or &min_tmp,
\* &loc_tmp, and does nothing in the default case.
SegStart(w, isi) ==
  /\ cfg.backend = "cilk"
  /\ cfg.segmented
  /\ f_pc[0] = "loop"
  /\ Takes(w, 0, isi)
  /\ IF HasCase(getSegment(cfg.is, isi).type)
       THEN /\ Enter(w, isi, [f_todo EXCEPT ![0] = Started(@, isi)])
            /\ f_slot' = [f_slot EXCEPT ![isi] = w]
       ELSE /\ f_todo' = [f_todo EXCEPT ![0] = Started(@, isi)]
            /\ f_pc' = [f_pc EXCEPT ![isi] = "post"]
            /\ w_frame' = [w_frame EXCEPT ![w] = isi]
            /\ w_pc' = [w_pc EXCEPT ![w] = IF IsMinMax THEN "seg_calc" ELSE "seg_end"]
            /\ UNCHANGED <<f_slot, f_i, sum_tmp, min_tmp, loc_tmp, reduction>>
  /\ UNCHANGED <<cfg, f_params, sum, min, loc, count, w_x, w_reg>>

\* Worker w starts iteration x of the flat cilk_for of frame f and invokes
\* loop_body.  In forall_sum the slot it hands over is
\* &sum_tmp[__cilkrts_get_worker_number()], and the body's *slot += ...
\* starts by reading it.  (w_x is kept only where a later step of the
\* iteration uses the loop variable: not for the body of forall.)
BodyBegin(w, f, x) ==
  /\ cfg.backend = "cilk"
  /\ ~(cfg.segmented /\ f = 0)
  /\ f_pc[f] = "loop"
  /\ Takes(w, f, x)
  /\ f_todo' = [f_todo EXCEPT ![f] = Started(@, x)]
  /\ count' = [count EXCEPT ![BodyArg(Iter(f), x)] = @ + 1]
  /\ w_frame' = [w_frame EXCEPT ![w] = f]
  /\ w_x' = [w_x EXCEPT ![w] = IF cfg.op = "forall" THEN 0 ELSE x]
  /\ w_pc' = [w_pc EXCEPT ![w] =
                CASE cfg.op = "forall_sum" -> "body_wr"
                  [] IsMinMax -> "body_cmp"
                  [] OTHER -> "body"]
  /\ w_reg' = [w_reg EXCEPT ![w] =
                 IF cfg.op = "forall_sum" THEN sum_tmp[f][w] ELSE 0]
  /\ UNCHANGED <<cfg, f_params, sum, min, loc, f_pc, f_slot, f_i, sum_tmp, min_tmp,
                 loc_tmp, reduction>>

\* loop_body( ii ) of forall returns.
BodyEnd(w) ==
  /\ w_pc[w] = "body"
  /\ Finish(w, w_frame[w])
  /\ UNCHANGED <<cfg, f_params, sum, min, loc, count, f_todo, f_slot, f_i, sum_tmp,
                 min_tmp, loc_tmp, reduction, w_reg>>

\* The loop body of forall_sum writes its slot and returns.
BodyWrite(w) ==
  /\ w_pc[w] = "body_wr"
  /\ LET f == w_frame[w] IN
       /\ sum_tmp' = [sum_tmp EXCEPT ![f][w] =
                        BodySum(w_reg[w], BodyArg(Iter(f), w_x[w]))]
       /\ Finish(w, f)
  /\ w_reg' = [w_reg EXCEPT ![w] = 0]
  /\ UNCHANGED <<cfg, f_params, sum, min, loc, count, f_todo, f_slot, f_i, min_tmp,
                 loc_tmp, reduction>>

\* The loop body of forall_minloc / forall_maxloc compares its candidate
\* with *min_tmp ...
BodyCmp(w) ==
  /\ w_pc[w] = "body_cmp"
  /\ LET f == w_frame[w] IN
       w_pc' = [w_pc EXCEPT ![w] =
                  IF Comp(v(BodyArg(Iter(f), w_x[w])), min_tmp[f])
                    THEN "body_wmin" ELSE "calc"]
  /\ UNCHANGED <<cfg, f_params, sum, min, loc, count, f_pc, f_todo, f_slot, f_i, sum_tmp,
                 min_tmp, loc_tmp, reduction, w_frame, w_x, w_reg>>

\* ... stores it in *min_tmp ...
BodyWMin(w) ==
  /\ w_pc[w] = "body_wmin"
  /\ LET f == w_frame[w] IN
       min_tmp' = [min_tmp EXCEPT ![f] = v(BodyArg(Iter(f), w_x[w]))]
  /\ w_pc' = [w_pc EXCEPT ![w] = "body_wloc"]
  /\ UNCHANGED <<cfg, f_params, sum, min, loc, count, f_pc, f_todo, f_slot, f_i, sum_tmp,
                 loc_tmp, reduction, w_frame, w_x, w_reg>>

\* ... and its index in *loc_tmp.
BodyWLoc(w) ==
  /\ w_pc[w] = "body_wloc"
  /\ LET f == w_frame[w] IN
       loc_tmp' = [loc_tmp EXCEPT ![f] = BodyArg(Iter(f), w_x[w])]
  /\ w_pc' = [w_pc EXCEPT ![w] = "calc"]
  /\ UNCHANGED <<cfg, f_params, sum, min, loc, count, f_pc, f_todo, f_slot, f_i, sum_tmp,
                 min_tmp, reduction, w_frame, w_x, w_reg>>

\* reduction.calc_min( ii, min_tmp ) (calc_max( ii, max_tmp ); idx[k] for an
\* indirection array): the view of this iteration records the loop's index
\* with the value min_tmp holds now.
Calc(w) ==
  /\ w_pc[w] = "calc"
  /\ LET f == w_frame[w] IN
       /\ reduction' = [reduction EXCEPT ![f][w_x[w]] =
                          calc(EmptyView, BodyArg(Iter(f), w_x[w]), min_tmp[f])]
       /\ Finish(w, f)
  /\ UNCHANGED <<cfg, f_params, sum, min, loc, count, f_todo, f_slot, f_i, sum_tmp,
                 min_tmp, loc_tmp, w_reg>>

\* for ( i < nthreads ) *sum += sum_tmp[i]: the read of *sum ...
MergeRead(w) ==
  /\ w_pc[w] = "merge_rd"
  /\ w_reg' = [w_reg EXCEPT ![w] = TargetSum(w_frame[w])]
  /\ w_pc' = [w_pc EXCEPT ![w] = "merge_wr"]
  /\ UNCHANGED <<cfg, f_params, sum, min, loc, count, f_pc, f_todo, f_slot, f_i, sum_tmp,
                 min_tmp, loc_tmp, reduction, w_frame, w_x>>

\* ... and the write of *sum, then ++i.
MergeWrite(w) ==
  /\ w_pc[w] = "merge_wr"
  /\ LET f == w_frame[w]
         i == f_i[f]
         new == MergeSum(w_reg[w], sum_tmp[f][i])
     IN
       /\ IF f = 0
            THEN sum' = new /\ sum_tmp' = sum_tmp
            ELSE sum' = sum /\ sum_tmp' = [sum_tmp EXCEPT ![0][f_slot[f]] = new]
       /\ f_i' = [f_i EXCEPT ![f] = i + 1]
       /\ w_pc' = [w_pc EXCEPT ![w] = IF i + 1 < nthreads THEN "merge_rd" ELSE "ret"]
  /\ w_reg' = [w_reg EXCEPT ![w] = 0]
  /\ UNCHANGED <<cfg, f_params, min, loc, count, f_pc, f_todo, f_slot, min_tmp, loc_tmp,
                 reduction, w_frame, w_x>>

\* if ( reduction.get_value() < *min )   ( > *max )
FinCmp(w) ==
  /\ w_pc[w] = "fin_cmp"
  /\ LET f == w_frame[w] IN
       w_pc' = [w_pc EXCEPT ![w] =
                  IF Comp(get_value(reduction[f]), TargetMin(f))
                    THEN "fin_wmin" ELSE "ret"]
  /\ UNCHANGED <<cfg, f_params, sum, min, loc, count, f_pc, f_todo, f_slot, f_i, sum_tmp,
                 min_tmp, loc_tmp, reduction, w_frame, w_x, w_reg>>

\* *min = reduction.get_value()
FinWMin(w) ==
  /\ w_pc[w] = "fin_wmin"
  /\ LET f == w_frame[w]
         new == get_value(reduction[f])
     IN
       IF f = 0
         THEN min' = new /\ min_tmp' = min_tmp
         ELSE min' = min /\ min_tmp' = [min_tmp EXCEPT ![0] = new]
  /\ w_pc' = [w_pc EXCEPT ![w] = "fin_wloc"]
  /\ UNCHANGED <<cfg, f_params, sum, loc, count, f_pc, f_todo, f_slot, f_i, sum_tmp,
                 loc_tmp, reduction, w_frame, w_x, w_reg>>

\* *loc = reduction.get_index()
FinWLoc(w) ==
  /\ w_pc[w] = "fin_wloc"
  /\ LET f == w_frame[w]
         new == get_index(reduction[f])
     IN
       IF f = 0
         THEN loc' = new /\ loc_tmp' = loc_tmp
         ELSE loc' = loc /\ loc_tmp' = [loc_tmp EXCEPT ![0] = new]
  /\ w_pc' = [w_pc EXCEPT ![w] = "ret"]
  /\ UNCHANGED <<cfg, f_params, sum, min, count, f_pc, f_todo, f_slot, f_i, sum_tmp,
                 min_tmp, reduction, w_frame, w_x, w_reg>>

\* The entry point returns: to the caller from frame 0, into the iteration
\* of the cilk_for over segments from a segment's call.
Return(w) ==
  /\ w_pc[w] = "ret"
  /\ IF w_frame[w] = 0
       THEN /\ f_pc' = [f_pc EXCEPT ![0] = "done"]
            /\ w_pc' = [w_pc EXCEPT ![w] = "idle"]
       ELSE /\ f_pc' = f_pc
            /\ w_pc' = [w_pc EXCEPT ![w] = IF IsMinMax THEN "seg_calc" ELSE "seg_end"]
  /\ UNCHANGED <<cfg, f_params, sum, min, loc, count, f_todo, f_slot, f_i, sum_tmp,
                 min_tmp, loc_tmp, reduction, w_frame, w_x, w_reg>>

\* reduction.calc_min( loc_tmp, min_tmp ) after the switch, in the
\* iteration for segment isi.
SegCalc(w) ==
  /\ w_pc[w] = "seg_calc"
  /\ reduction' = [reduction EXCEPT ![0][w_frame[w]] =
                     calc(EmptyView, loc_tmp[0], min_tmp[0])]
  /\ w_pc' = [w_pc EXCEPT ![w] = "seg_end"]
  /\ UNCHANGED <<cfg, f_params, sum, min, loc, count, f_pc, f_todo, f_slot, f_i, sum_tmp,
                 min_tmp, loc_tmp, w_frame, w_x, w_reg>>

\* The iteration for a segment ends: worker w is back at the head of the
\* cilk_for over segments while segments are left; otherwise the last one to
\* reach its sync continues with the code after it and any other is idle.
SegEnd(w) ==
  /\ w_pc[w] = "seg_end"
  /\ LET f == w_frame[w] IN
       IF f_todo[0] # {}
         THEN /\ f_pc' = [f_pc EXCEPT ![f] = "done"]
              /\ w_pc' = [w_pc EXCEPT ![w] = "loop"]
         ELSE IF SegLoopDone(w, {f})
           THEN /\ f_pc' = [f_pc EXCEPT ![f] = "done", ![0] = "post"]
                /\ w_pc' = [w_pc EXCEPT ![w] = PostLoopPc]
           ELSE /\ f_pc' = [f_pc EXCEPT ![f] = "done"]
                /\ w_pc' = [w_pc EXCEPT ![w] = "idle"]
  /\ w_frame' = [w_frame EXCEPT ![w] = 0]
  /\ UNCHANGED <<cfg, f_params, sum, min, loc, count, f_todo, f_slot, f_i, sum_tmp,
                 min_tmp, loc_tmp, reduction, w_x, w_reg>>

\* Worker w, at the head of a cilk_for with no iteration left to start,
\* reaches the implicit sync of the loop.
Sync(w) ==
  /\ w_pc[w] = "loop"
  /\ f_todo[w_frame[w]] = {}
  /\ LET f == w_frame[w] IN
       IF IF cfg.segmented /\ f = 0 THEN SegLoopDone(w, {}) ELSE LoopDone(f, w)
         THEN /\ f_pc' = [f_pc EXCEPT ![f] = "post"]
              /\ w_pc' = [w_pc EXCEPT ![w] = PostLoopPc]
              /\ w_frame' = w_frame
         ELSE /\ f_pc' = f_pc
              /\ w_pc' = [w_pc EXCEPT ![w] = "idle"]
              /\ w_frame' = [w_frame EXCEPT ![w] = 0]
  /\ UNCHANGED <<cfg, f_params, sum, min, loc, count, f_todo, f_slot, f_i, sum_tmp,
                 min_tmp, loc_tmp, reduction, w_x, w_reg>>

\* ----------------------------------------------- OpenMP forall_impl
\* the scheduling-mode overloads of internal::forall_impl and
\* internal::forall_impl_nowait
OmpPolicies == {"Auto", "Static", "StaticChunk", "Dynamic", "DynamicChunk",
                "Guided", "GuidedChunk", "Runtime",
                "NowaitAuto", "NowaitStatic", "NowaitStaticChunk"}

\* RAJA_EXTRACT_BED_IT(iter): distance_it, and *(begin_it + i) / begin_it[i]
distance_it(it) == it.end - it.begin

\* an iterator that ignores where the iterable begins
begin_it_index(it, i) == i

begin_it(it, i) == it.begin + i

\* the overloads whose omp for calls invoke_body(f_params, loop_body, ...);
\* Runtime and the forall_impl_nowait overloads call loop_body(begin_it[i])
InvokesBody(policy) ==
  policy \notin {"Runtime", "NowaitAuto", "NowaitStatic", "NowaitStaticChunk"}

\* ParamMultiplexer of a sum reducer: init sets the value to the identity of
\* the operator, combine adds the incoming value to the outgoing one, resolve
\* combines the value with the caller's target
init(val) == 0

combine(out, in) == out + in

resolve(val, target) == val + target

\* initializer(omp_priv = omp_orig): a private copy starts as a copy of the
\* original
omp_priv(omp_orig) == omp_orig

\* (mutant of CombineFrom) only the private copy of thread t is combined
CombineOne(val, t) == combine(val, sum_tmp[0][t])

\* reduction(combine : f_params) at the end of the region: the private copy
\* of each thread t .. nthreads-1 is combined into the original
RECURSIVE CombineFrom(_, _)
CombineFrom(val, t) ==
  IF t >= nthreads THEN val
  ELSE CombineFrom(combine(val, sum_tmp[0][t]), t + 1)

\* forall_impl is entered by the calling thread (thread 0):
\* ParamMultiplexer::init(f_params), then the parallel region starts with the
\* iterations i = 0 .. distance_it-1 to share and, per thread, a private copy
\* of f_params (sum_tmp[0][t]) initialised from the original (omp_priv =
\* omp_orig).
OmpCall ==
  /\ cfg.backend = "omp"
  /\ f_pc[0] = "none"
  /\ f_pc' = [f_pc EXCEPT ![0] = "loop"]
  /\ f_todo' = [f_todo EXCEPT ![0] = {i \in 0 .. MaxIdx : i < distance_it(cfg.is[1])}]
  /\ f_params' = init(f_params)
  /\ sum_tmp' = [sum_tmp EXCEPT ![0] = [t \in Workers |-> omp_priv(f_params')]]
  /\ UNCHANGED <<cfg, sum, min, loc, count, f_slot, f_i, min_tmp,
                 loc_tmp, reduction, w_pc, w_frame, w_x, w_reg>>

\* Thread t of the team takes iteration i of the work-sharing loop (the
\* schedule decides which thread; any assignment is allowed here) and
\* invokes the loop body with begin_it[i]: through invoke_body, which hands
\* the body the thread's private f_params to add v to, or directly, with the
\* index alone.
OmpBodyBegin(t, i) ==
  /\ cfg.backend = "omp"
  /\ f_pc[0] = "loop"
  /\ w_pc[t] = "idle"
  /\ i \in f_todo[0]
  /\ f_todo' = [f_todo EXCEPT ![0] = Started(@, i)]
  /\ count' = [count EXCEPT ![begin_it(cfg.is[1], i)] = @ + 1]
  /\ w_pc' = [w_pc EXCEPT ![t] = "omp_body"]
  /\ sum_tmp' = IF cfg.op = "forall_sum" /\ InvokesBody(cfg.policy)
                  THEN [sum_tmp EXCEPT ![0][t] = BodySum(@, begin_it(cfg.is[1], i))]
                  ELSE sum_tmp
  /\ UNCHANGED <<cfg, f_params, sum, min, loc, f_pc, f_slot, f_i, min_tmp,
                 loc_tmp, reduction, w_frame, w_x, w_reg>>

\* The loop body returns on thread t.
OmpBodyEnd(t) ==
  /\ w_pc[t] = "omp_body"
  /\ w_pc' = [w_pc EXCEPT ![t] = "idle"]
  /\ UNCHANGED <<cfg, f_params, sum, min, loc, count, f_pc, f_todo, f_slot, f_i, sum_tmp,
                 min_tmp, loc_tmp, reduction, w_frame, w_x, w_reg>>

\* Thread t has run its share of the work-sharing loop and goes on to the
\* end of the parallel region: with nowait it passes the end of the loop
\* without waiting, otherwise the barrier of the loop is the one of the
\* region. The iterations still to take are the share of the threads that
\* have not left the loop.
OmpLeave(t) ==
  /\ cfg.backend = "omp"
  /\ f_pc[0] = "loop"
  /\ w_pc[t] = "idle"
  /\ f_todo[0] = {} \/ \E u \in Active \ {t} : w_pc[u] # "omp_end"
  /\ w_pc' = [w_pc EXCEPT ![t] = "omp_end"]
  /\ UNCHANGED <<cfg, f_params, sum, min, loc, count, f_pc, f_todo, f_slot, f_i, sum_tmp,
                 min_tmp, loc_tmp, reduction, w_frame, w_x, w_reg>>

\* (mutant of RegionJoined) the master thread alone has reached the end of
\* the region
MasterAtEnd == w_pc[0] = "omp_end"

\* the implicit barrier at the end of the parallel region: every thread of
\* the team has reached it
RegionJoined == \A t \in Active : w_pc[t] = "omp_end"

\* The parallel region ends: every thread of the team has reached its end,
\* the private copies of f_params are combined into the original, and the
\* master thread goes on alone.
OmpJoin ==
  /\ cfg.backend = "omp"
  /\ f_pc[0] = "loop"
  /\ RegionJoined
  /\ f_pc' = [f_pc EXCEPT ![0] = "post"]
  /\ f_params' = CombineFrom(f_params, 0)
  /\ w_pc' = [t \in Workers |-> IF w_pc[t] = "omp_end" THEN "idle" ELSE w_pc[t]]
  /\ UNCHANGED <<cfg, sum, min, loc, count, f_todo, f_slot, f_i, sum_tmp,
                 min_tmp, loc_tmp, reduction, w_frame, w_x, w_reg>>

\* ParamMultiplexer::resolve(f_params), and forall_impl returns.
OmpResolve ==
  /\ cfg.backend = "omp"
  /\ f_pc[0] = "post"
  /\ f_pc' = [f_pc EXCEPT ![0] = "done"]
  /\ sum' = IF cfg.op = "forall_sum" THEN resolve(f_params, sum) ELSE sum
  /\ UNCHANGED <<cfg, f_params, min, loc, count, f_todo, f_slot, f_i, sum_tmp,
                 min_tmp, loc_tmp, reduction, w_pc, w_frame, w_x, w_reg>>

\* ------------------------------------------------------------- the calls
Config(backend, op, segmented, policy, n, is, vf, s0, m0, l0) ==
  [backend |-> backend, op |-> op, segmented |-> segmented, policy |-> policy,
   nthreads |-> n, is |-> is, v |-> vf, sum0 |-> s0, min0 |-> m0, loc0 |-> l0]

\* a loop body that proposes nothing
NoV == [i \in 0 .. MaxIdx |-> 0]

\* the ranges [begin, end) with begin, end in 0 .. MaxIdx (empty when
\* begin >= end)
Ranges == {RangeISet(b, e) : b \in 0 .. MaxIdx, e \in 0 .. MaxIdx}

\* a segment of a given kind over the indices b .. e-1
Segment(type, b, e) ==
  CASE type = "Range" -> RangeISet(b, e)
    [] type = "RangeStride" -> RangeStrideISet(b, e, 1)
    [] OTHER -> UnstructuredISet([j \in 1 .. (e - b) |-> b + j - 1])

\* the cut points 0 = c[0] <= c[1] <= ... <= c[k] of k contiguous segments
Cuts(k) ==
  {c \in [0 .. k -> 0 .. MaxIdx] : c[0] = 0 /\ \A j \in 1 .. k : c[j - 1] <= c[j]}

\* the hybrid index sets that partition a range [0, n) into k <= MaxSegs
\* contiguous segments (empty ones included); the first segment is of one
\* kind of `kinds` and the others of one kind of `kinds`
HybridISets(kinds) ==
  UNION {{[j \in 1 .. k |-> Segment(IF j = 1 THEN t[1] ELSE t[2], c[j - 1], c[j])] :
            c \in Cuts(k), t \in kinds \X kinds} : k \in 0 .. MaxSegs}

SegTypes == {"Range", "RangeStride", "Unstructured"}

\* the value a sum reduction parameter holds when forall_impl is entered
ParamPriors == {0, 1}

Start(c) ==
  /\ cfg = c
  /\ sum = c.sum0
  /\ min = c.min0
  /\ loc = c.loc0
  /\ count = [i \in 0 .. MaxIdx |-> 0]
  /\ f_pc = [f \in Frames |-> "none"]
  /\ f_todo = [f \in Frames |-> {}]
  /\ f_slot = [f \in Frames |-> 0]
  /\ f_i = [f \in Frames |-> 0]
  /\ sum_tmp = [f \in Frames |-> ZeroSlots]
  /\ min_tmp = [f \in Frames |-> 0]
  /\ loc_tmp = [f \in Frames |-> 0]
  /\ reduction = [f \in Frames |-> NoViews]
  /\ w_pc = [w \in Workers |-> "idle"]
  /\ w_frame = [w \in Workers |-> 0]
  /\ w_x = [w \in Workers |-> 0]
  /\ w_reg = [w \in Workers |-> 0]
  /\ f_params \in IF c.backend = "omp" /\ c.op = "forall_sum"
                    THEN ParamPriors ELSE {0}

\* ------------------------------------------------- forall (no reduction)
ForallCalls ==
  {Config("cilk", "forall", FALSE, "cilk_for_exec", n, <<r>>, NoV, 0, 0, 0) :
     n \in 1 .. MaxWorkers, r \in Ranges}
  \cup
  {Config("cilk", "forall", TRUE, "cilk_for_segit", n, is, NoV, 0, 0, 0) :
     n \in 1 .. MaxWorkers, is \in HybridISets(SegTypes)}
  \cup
  {Config("omp", "forall", FALSE, p, n, <<r>>, NoV, 0, 0, 0) :
     n \in 1 .. MaxWorkers, p \in OmpPolicies,
     r \in {q \in Ranges : q.begin <= q.end}}

InitForall == \E c \in ForallCalls : Start(c)

NextForall ==
  \/ Call
  \/ \E w \in Active, isi \in 1 .. MaxSegs : SegStart(w, isi)
  \/ \E w \in Active : Sync(w)
  \/ \E w \in Active, f \in Frames, x \in 0 .. MaxIdx : BodyBegin(w, f, x)
  \/ \E w \in Active : BodyEnd(w)
  \/ \E w \in Active : Return(w)
  \/ \E w \in Active : SegEnd(w)
  \/ OmpCall
  \/ \E t \in Active, i \in 0 .. MaxIdx : OmpBodyBegin(t, i)
  \/ \E t \in Active : OmpBodyEnd(t)
  \/ \E t \in Active : OmpLeave(t)
  \/ OmpJoin
  \/ OmpResolve

SpecForall == InitForall /\ [][NextForall]_vars

\* --------------------------------------------- forall, strided range
StridedCalls ==
  {Config("cilk", "forall", FALSE, "cilk_for_exec", n, <<RangeStrideISet(b, e, st)>>,
          NoV, 0, 0, 0) :
     n \in 1 .. MaxWorkers, b \in 0 .. MaxIdx, e \in 0 .. MaxIdx,
     st \in 1 .. MaxStride}

InitStrided == \E c \in StridedCalls : Start(c)

NextStrided ==
  \/ Call
  \/ \E w \in Active : Sync(w)
  \/ \E w \in Active, f \in Frames, x \in 0 .. MaxIdx : BodyBegin(w, f, x)
  \/ \E w \in Active : BodyEnd(w)
  \/ \E w \in Active : Return(w)

SpecStrided == InitStrided /\ [][NextStrided]_vars

\* ------------------------------------------------------- forall_sum
\* loop bodies of a sum reduction: *slot += i*i, *slot += 1 - i
SumBodies == {[i \in 0 .. MaxIdx |-> i * i], [i \in 0 .. MaxIdx |-> 1 - i]}

\* prior values of the caller's *sum
SumPriors == {0, 5}

FlatSumCalls ==
  {Config("cilk", "forall_sum", FALSE, "cilk_for_exec", n, <<r>>, b, s0, 0, 0) :
     n \in 1 .. MaxWorkers, r \in Ranges, b \in SumBodies, s0 \in SumPriors}

InitSum == \E c \in FlatSumCalls : Start(c)

NextSum ==
  \/ Call
  \/ \E w \in Active : Sync(w)
  \/ \E w \in Active, f \in Frames, x \in 0 .. MaxIdx : BodyBegin(w, f, x)
  \/ \E w \in Active : BodyWrite(w)
  \/ \E w \in Active : MergeRead(w)
  \/ \E w \in Active : MergeWrite(w)
  \/ \E w \in Active : Return(w)

SpecSum == InitSum /\ [][NextSum]_vars

SegSumCalls ==
  {Config("cilk", "forall_sum", TRUE, "cilk_for_segit", n, is, b, s0, 0, 0) :
     n \in 1 .. MaxWorkers, is \in HybridISets({"Range"}), b \in SumBodies,
     s0 \in SumPriors}

InitSegSum == \E c \in SegSumCalls : Start(c)

NextSegSum ==
  \/ Call
  \/ \E w \in Active, isi \in 1 .. MaxSegs : SegStart(w, isi)
  \/ \E w \in Active : Sync(w)
  \/ \E w \in Active, f \in Frames, x \in 0 .. MaxIdx : BodyBegin(w, f, x)
  \/ \E w \in Active : BodyWrite(w)
  \/ \E w \in Active : MergeRead(w)
  \/ \E w \in Active : MergeWrite(w)
  \/ \E w \in Active : Return(w)
  \/ \E w \in Active : SegEnd(w)

SpecSegSum == InitSegSum /\ [][NextSegSum]_vars

\* OpenMP forall_impl with one sum reduction parameter
OmpSumCalls ==
  {Config("omp", "forall_sum", FALSE, p, n, <<r>>, b, s0, 0, 0) :
     n \in 1 .. MaxWorkers, p \in OmpPolicies,
     r \in {q \in Ranges : q.begin <= q.end}, b \in SumBodies, s0 \in SumPriors}

InitOmpSum == \E c \in OmpSumCalls : Start(c)

NextOmpSum ==
  \/ OmpCall
  \/ \E t \in Active, i \in 0 .. MaxIdx : OmpBodyBegin(t, i)
  \/ \E t \in Active : OmpBodyEnd(t)
  \/ \E t \in Active : OmpLeave(t)
  \/ OmpJoin
  \/ OmpResolve

SpecOmpSum == InitOmpSum /\ [][NextOmpSum]_vars

\* every forall_sum: flat, and segmented over up to MaxSumSegs segments
SlotCalls ==
  FlatSumCalls \cup {c \in SegSumCalls : Len(c.is) <= MaxSumSegs}

InitSlots == \E c \in SlotCalls : Start(c)

SpecSlots == InitSlots /\ [][NextSegSum]_vars

\* ------------------------------------------- forall_minloc, forall_maxloc
\* loop bodies of a minloc / maxloc reduction, by the candidate v(i) they
\* propose at index i: -i, i, 0 (all tied), (i-1)*(i-1) - 1 (least at 1)
MinBodies ==
  {[i \in 0 .. MaxIdx |-> 0 - i], [i \in 0 .. MaxIdx |-> i],
   [i \in 0 .. MaxIdx |-> 0], [i \in 0 .. MaxIdx |-> (i - 1) * (i - 1) - 1]}

\* the caller's *loc before the call: no location yet
LocPriors == {-1}

FlatMinlocCalls ==
  {Config("cilk", op, FALSE, "cilk_for_exec", n, <<r>>, b, 0, m0, l0) :
     op \in {"forall_minloc", "forall_maxloc"}, n \in 1 .. MaxWorkers,
     r \in Ranges, b \in MinBodies, m0 \in Vals, l0 \in LocPriors}

InitMinloc == \E c \in FlatMinlocCalls : Start(c)

NextMinloc ==
  \/ Call
  \/ \E w \in Active : Sync(w)
  \/ \E w \in Active, f \in Frames, x \in 0 .. MaxIdx : BodyBegin(w, f, x)
  \/ \E w \in Active : BodyCmp(w)
  \/ \E w \in Active : BodyWMin(w)
  \/ \E w \in Active : BodyWLoc(w)
  \/ \E w \in Active : Calc(w)
  \/ \E w \in Active : FinCmp(w)
  \/ \E w \in Active : FinWMin(w)
  \/ \E w \in Active : FinWLoc(w)
  \/ \E w \in Active : Return(w)

SpecMinloc == InitMinloc /\ [][NextMinloc]_vars

SegMinlocCalls ==
  {Config("cilk", op, TRUE, "cilk_for_segit", n, is, b, 0, m0, l0) :
     op \in {"forall_minloc", "forall_maxloc"}, n \in 1 .. MaxWorkers,
     is \in HybridISets({"Range"}), b \in MinBodies, m0 \in Vals, l0 \in LocPriors}

InitSegMinloc == \E c \in SegMinlocCalls : Start(c)

NextSegMinloc ==
  \/ Call
  \/ \E w \in Active, isi \in 1 .. MaxSegs : SegStart(w, isi)
  \/ \E w \in Active : Sync(w)
  \/ \E w \in Active, f \in Frames, x \in 0 .. MaxIdx : BodyBegin(w, f, x)
  \/ \E w \in Active : BodyCmp(w)
  \/ \E w \in Active : BodyWMin(w)
  \/ \E w \in Active : BodyWLoc(w)
  \/ \E w \in Active : Calc(w)
  \/ \E w \in Active : FinCmp(w)
  \/ \E w \in Active : FinWMin(w)
  \/ \E w \in Active : FinWLoc(w)
  \/ \E w \in Active : Return(w)
  \/ \E w \in Active : SegCalc(w)
  \/ \E w \in Active : SegEnd(w)

SpecSegMinloc == InitSegMinloc /\ [][NextSegMinloc]_vars

\* segmented forall_minloc over hybrid index sets that hold a segment of a
\* kind the switch has no case for
NoCaseCalls ==
  {Config("cilk", "forall_minloc", TRUE, "cilk_for_segit", n, is, b, 0, m0, l0) :
     n \in 1 .. MaxWorkers,
     is \in {h \in HybridISets({"Range", "RangeStride"}) :
               \E j \in 1 .. Len(h) : ~HasCase(h[j].type)},
     b \in MinBodies, m0 \in Vals, l0 \in LocPriors}

InitNoCase == \E c \in NoCaseCalls : Start(c)

SpecNoCase == InitNoCase /\ [][NextSegMinloc]_vars

\* ------------------------------------- iteration over an indirection array
\* the indirection arrays: up to MaxLen indices, in any order, with repeats
IndexArrays == UNION {[1 .. n -> 0 .. MaxIdx] : n \in 0 .. MaxLen}

\* forall, forall_sum, forall_minloc and forall_maxloc over idx[0 .. len-1]
IndirectCalls ==
  {Config("cilk", op, FALSE, "cilk_for_exec", n, <<UnstructuredISet(ix)>>,
          [i \in 0 .. MaxIdx |-> 1 - i], 0, 0, l0) :
     op \in {"forall", "forall_sum", "forall_minloc", "forall_maxloc"},
     n \in 1 .. MaxWorkers, ix \in IndexArrays, l0 \in LocPriors}

InitIndirect == \E c \in IndirectCalls : Start(c)

NextIndirect ==
  \/ Call
  \/ \E w \in Active : Sync(w)
  \/ \E w \in Active, f \in Frames, x \in 0 .. MaxIdx : BodyBegin(w, f, x)
  \/ \E w \in Active : BodyEnd(w)
  \/ \E w \in Active : BodyWrite(w)
  \/ \E w \in Active : BodyCmp(w)
  \/ \E w \in Active : BodyWMin(w)
  \/ \E w \in Active : BodyWLoc(w)
  \/ \E w \in Active : Calc(w)
  \/ \E w \in Active : MergeRead(w)
  \/ \E w \in Active : MergeWrite(w)
  \/ \E w \in Active : FinCmp(w)
  \/ \E w \in Active : FinWMin(w)
  \/ \E w \in Active : FinWLoc(w)
  \/ \E w \in Active : Return(w)

SpecIndirect == InitIndirect /\ [][NextIndirect]_vars

\* ------------------------------------------------ dispatch under fairness
\* the dispatches followed to their return: forall over a range, a strided
\* range and a hybrid index set of range and strided segments on the Cilk
\* backend, forall_impl on the OpenMP backend, and forall_sum over a range
LiveCalls ==
  {c \in ForallCalls :
     \A j \in 1 .. Len(c.is) : c.is[j].type \in {"Range", "RangeStride"}}
    \cup StridedCalls \cup FlatSumCalls

InitLive == \E c \in LiveCalls : Start(c)

\* the loop body returns on worker w (in forall_sum, with its store to the
\* slot)
BodyReturns(w) == BodyEnd(w) \/ BodyWrite(w) \/ OmpBodyEnd(w)

\* every step of the runtime and of the entry points themselves
Progress ==
  \/ Call
  \/ \E w \in Active, isi \in 1 .. MaxSegs : SegStart(w, isi)
  \/ \E w \in Active : Sync(w)
  \/ \E w \in Active, f \in Frames, x \in 0 .. MaxIdx : BodyBegin(w, f, x)
  \/ \E w \in Active : MergeRead(w)
  \/ \E w \in Active : MergeWrite(w)
  \/ \E w \in Active : Return(w)
  \/ \E w \in Active : SegEnd(w)
  \/ OmpCall
  \/ \E t \in Active, i \in 0 .. MaxIdx : OmpBodyBegin(t, i)
  \/ \E t \in Active : OmpLeave(t)
  \/ OmpJoin
  \/ OmpResolve

NextLive ==
  \/ Progress
  \/ \E w \in Active : BodyReturns(w)

\* the workers are scheduled fairly: a step of the runtime or of an entry
\* point that stays possible is taken; nothing is assumed of the loop body
SpecLive == InitLive /\ [][NextLive]_vars /\ WF_vars(Progress)

\* ------------------------------ the caller-level forall_minloc / maxloc
\* forall_minloc and forall_maxloc as the caller invokes them: over a range,
\* and over a hybrid index set of at most MaxSumSegs range segments of at
\* most one index each
OuterCalls ==
  FlatMinlocCalls \cup
    {c \in SegMinlocCalls :
       /\ Len(c.is) <= MaxSumSegs
       /\ \A j \in 1 .. Len(c.is) : Cardinality(IterSpace(c.is[j])) <= 1}

InitOuter == \E c \in OuterCalls : Start(c)

SpecOuter == InitOuter /\ [][NextSegMinloc]_vars

\* ------------------------------------------------ the flat entry points
\* every flat entry point: Cilk forall, forall_sum, forall_minloc and
\* forall_maxloc over a range, OpenMP forall_impl without and with a
\* reduction parameter
FlatCalls ==
  {c \in ForallCalls : ~c.segmented} \cup FlatSumCalls \cup FlatMinlocCalls
    \cup OmpSumCalls

InitFlat == \E c \in FlatCalls : Start(c)

NextFlat ==
  \/ Call
  \/ \E w \in Active : Sync(w)
  \/ \E w \in Active, f \in Frames, x \in 0 .. MaxIdx : BodyBegin(w, f, x)
  \/ \E w \in Active : BodyEnd(w)
  \/ \E w \in Active : BodyWrite(w)
  \/ \E w \in Active : BodyCmp(w)
  \/ \E w \in Active : BodyWMin(w)
  \/ \E w \in Active : BodyWLoc(w)
  \/ \E w \in Active : Calc(w)
  \/ \E w \in Active : MergeRead(w)
  \/ \E w \in Active : MergeWrite(w)
  \/ \E w \in Active : FinCmp(w)
  \/ \E w \in Active : FinWMin(w)
  \/ \E w \in Active : FinWLoc(w)
  \/ \E w \in Active : Return(w)
  \/ OmpCall
  \/ \E t \in Active, i \in 0 .. MaxIdx : OmpBodyBegin(t, i)
  \/ \E t \in Active : OmpBodyEnd(t)
  \/ \E t \in Active : OmpLeave(t)
  \/ OmpJoin
  \/ OmpResolve

SpecFlat == InitFlat /\ [][NextFlat]_vars

\* ======================================================= the claims
\* the number of loop_body invocations a direct flat call over `it` makes
\* with index i
Visits(it, i) == Cardinality({x \in IterSpace(it) : BodyArg(it, x) = i})

\* a flat forall (Cilk or any OpenMP schedule) over a non-empty range
FlatRangeForall ==
  /\ ~cfg.segmented
  /\ cfg.op = "forall"
  /\ cfg.is[1].type = "Range"
  /\ cfg.is[1].begin < cfg.is[1].end

\* C1: a flat forall over a non-empty range [begin, end), on the Cilk
\* backend and under every OpenMP scheduling mode, invokes the loop body at
\* most once per index while it runs, and when it has returned exactly once
\* for each index in [begin, end) and never for another index.
C1_ExactlyOnce ==
  FlatRangeForall =>
    \A i \in 0 .. MaxIdx :
      LET want == IF cfg.is[1].begin <= i /\ i < cfg.is[1].end THEN 1 ELSE 0 IN
        /\ count[i] <= want
        /\ f_pc[0] = "done" => count[i] = want

\* C1 witness: a flat forall over at least two indices, run by at least two
\* workers, has returned.
C1_Witness ==
  /\ FlatRangeForall
  /\ cfg.is[1].end - cfg.is[1].begin >= 2
  /\ nthreads >= 2
  /\ f_pc[0] = "done"
  /\ \A i \in 0 .. MaxIdx : count[i] = Visits(cfg.is[1], i)

\* a segmented forall over a range [0, n) partitioned into k >= 1 contiguous
\* range segments
RangePartition ==
  /\ cfg.segmented
  /\ NumSeg >= 1
  /\ \A j \in 1 .. NumSeg : cfg.is[j].type = "Range"

\* C6: the segmented forall over a partition of [0, n) into k >= 1 range
\* segments invokes the loop body at most once per index while it runs and,
\* when it has returned, every segment has been processed and each index has
\* been visited as often as the flat forall over [0, n) visits it: once.
C6_SegmentedExactlyOnce ==
  (RangePartition /\ cfg.op = "forall") =>
    \A i \in 0 .. MaxIdx :
      LET want == Visits(RangeISet(0, cfg.is[NumSeg].end), i) IN
        /\ count[i] <= want
        /\ f_pc[0] = "done" =>
             /\ count[i] = want
             /\ \A j \in 1 .. NumSeg : f_pc[j] = "done"

\* C6 witness: a segmented forall over two non-empty range segments, run by
\* two workers, has returned.
C6_Witness ==
  /\ RangePartition
  /\ cfg.op = "forall"
  /\ NumSeg = 2
  /\ \A j \in 1 .. NumSeg : cfg.is[j].begin < cfg.is[j].end
  /\ nthreads >= 2
  /\ f_pc[0] = "done"
  /\ \A i \in 0 .. MaxIdx : count[i] = Visits(RangeISet(0, cfg.is[NumSeg].end), i)

\* C7 (as claimed): when a segmented call has returned, the indices of every
\* segment, whatever its kind (range, strided range, indirection list), have
\* been visited as often as direct calls on the segments' iterables visit them.
C7_EveryKindDispatched ==
  (cfg.segmented /\ f_pc[0] = "done") =>
    \A i \in 0 .. MaxIdx :
      count[i] = Cardinality({jx \in (1 .. NumSeg) \X (0 .. MaxIdx) :
                                /\ jx[2] \in IterSpace(cfg.is[jx[1]])
                                /\ BodyArg(cfg.is[jx[1]], jx[2]) = i})

\* the sum of the contributions v(i) of the iterations of a flat loop over
\* `it`, the loop variables in S still to add
RECURSIVE SumOver(_, _)
SumOver(it, S) ==
  IF S = {} THEN 0
  ELSE LET x == CHOOSE y \in S : TRUE IN
         v(BodyArg(it, x)) + SumOver(it, S \ {x})

Total(it) == SumOver(it, IterSpace(it))

\* C2: when a flat forall_sum over a range has returned, the caller's *sum
\* is its prior value plus the sum of v(i) over the indices of the range,
\* for every worker count and every assignment of iterations to workers.
C2_SumIsPriorPlusTotal ==
  (~cfg.segmented /\ cfg.op = "forall_sum" /\ f_pc[0] = "done") =>
    sum = cfg.sum0 + Total(cfg.is[1])

\* C2 witness: a flat forall_sum with a non-zero prior has returned after two
\* workers each accumulated a non-zero partial sum in their own slot.
C2_Witness ==
  /\ ~cfg.segmented
  /\ cfg.op = "forall_sum"
  /\ f_pc[0] = "done"
  /\ cfg.sum0 # 0
  /\ nthreads >= 2
  /\ sum_tmp[0][0] # 0
  /\ sum_tmp[0][1] # 0
  /\ sum = cfg.sum0 + Total(cfg.is[1])

\* the sum of the contributions of all indices of segments 1 .. k
RECURSIVE SegTotal(_)
SegTotal(k) == IF k = 0 THEN 0 ELSE Total(cfg.is[k]) + SegTotal(k - 1)

\* C9 (as claimed): when a segmented forall_sum has returned, the caller's
\* *sum is its prior value plus the contributions of all indices of all
\* segments, under every interleaving.
C9_SegSumIsPriorPlusTotal ==
  (cfg.segmented /\ cfg.op = "forall_sum" /\ f_pc[0] = "done") =>
    sum = cfg.sum0 + SegTotal(NumSeg)

\* the slot of frame 0's sum_tmp that worker w is about to write in the
\* merge loop of a segment's forall_sum (-1: none)
MergingInto(w) ==
  IF w_pc[w] = "merge_wr" /\ w_frame[w] # 0 THEN f_slot[w_frame[w]] ELSE -1

\* C10 (as claimed): during a forall_sum every write to a slot sum_tmp[i] is
\* made by worker i, and no two workers are inside a read-modify-write of
\* the same slot at the same time.
C10_SlotsSingleWriter ==
  cfg.op = "forall_sum" =>
    /\ \A w \in Active : MergingInto(w) \in {-1, w}
    /\ \A w, u \in Active :
         (w # u /\ MergingInto(w) # -1) => MergingInto(w) # MergingInto(u)

\* the indices a flat loop over `it` hands to the loop body
Indices(it) == {BodyArg(it, x) : x \in IterSpace(it)}

\* C3 (as claimed): when a flat forall_minloc over a non-empty range has
\* returned, the caller's *min is the minimum of its prior value and all
\* candidates v(i), under every interleaving of the workers.
C3_MinIsTrueMinimum ==
  (/\ ~cfg.segmented
   /\ cfg.op = "forall_minloc"
   /\ IterSpace(cfg.is[1]) # {}
   /\ f_pc[0] = "done") =>
    min = Lowest({cfg.min0} \cup {v(i) : i \in Indices(cfg.is[1])})

\* C4 (as claimed): when a flat forall_minloc / forall_maxloc over a
\* non-empty collection that changed the caller's value has returned, *loc is
\* an index of the iterated collection whose candidate equals the stored
\* value, under every assignment of iterations to workers.
C4_LocProducedValue ==
  (/\ ~cfg.segmented
   /\ IsMinMax
   /\ IterSpace(cfg.is[1]) # {}
   /\ f_pc[0] = "done"
   /\ min # cfg.min0) =>
    /\ loc \in Indices(cfg.is[1])
    /\ v(loc) = min

\* C5 (as claimed): when a flat call over an empty iterable has returned,
\* the loop body has not been invoked and *sum, *min / *max and *loc are as
\* they were before the call, whatever their prior values.
C5_EmptyLeavesAccumulators ==
  (/\ ~cfg.segmented
   /\ IterSpace(cfg.is[1]) = {}
   /\ f_pc[0] = "done") =>
    /\ \A i \in 0 .. MaxIdx : count[i] = 0
    /\ sum = cfg.sum0
    /\ min = cfg.min0
    /\ loc = cfg.loc0

\* the indices of all segments of the hybrid index set
AllIndices == UNION {Indices(cfg.is[j]) : j \in 1 .. NumSeg}

\* C8 (as claimed): when a segmented forall_minloc over k >= 1 non-empty
\* range segments has returned, *min is what the flat forall_minloc over the
\* unpartitioned range must yield, the minimum of the prior value and all
\* candidates, and when it changed *loc is an index that produced it.
C8_SegMinlocAsFlat ==
  (/\ RangePartition
   /\ \A j \in 1 .. NumSeg : IterSpace(cfg.is[j]) # {}
   /\ cfg.op = "forall_minloc"
   /\ f_pc[0] = "done") =>
    /\ min = Lowest({cfg.min0} \cup {v(i) : i \in AllIndices})
    /\ min # cfg.min0 => (loc \in AllIndices /\ v(loc) = min)

\* worker w is at a step of a minloc / maxloc iteration that reads or writes
\* the min_tmp / loc_tmp of the frame it executes in
TouchesTmp(w) == w_pc[w] \in {"body_cmp", "body_wmin", "body_wloc", "calc"}

\* C11 (as claimed): in forall_minloc / forall_maxloc the (value, location)
\* temporary handed to the loop body is per-worker: no two workers are ever
\* both at an access of the same frame's min_tmp / loc_tmp.
C11_TemporaryPerWorker ==
  IsMinMax =>
    \A w, u \in Active :
      (w # u /\ TouchesTmp(w) /\ TouchesTmp(u)) => w_frame[w] # w_frame[u]

\* C18 (as claimed): a sum reduction under the OpenMP backend yields the
\* prior value plus the contributions of all indices under every overload of
\* forall_impl / forall_impl_nowait, because every loop-body invocation is
\* handed the thread's reduction parameters together with the index.
C18_OmpReductionAnySchedule ==
  (cfg.backend = "omp" /\ cfg.op = "forall_sum" /\ f_pc[0] = "done") =>
    sum = cfg.sum0 + Total(cfg.is[1])

\* steps of the merge of a Cilk entry point: the '*sum += sum_tmp[i]' loop
\* and the final compare-and-store into *min / *loc
MergePcs == {"merge_rd", "merge_wr", "fin_cmp", "fin_wmin", "fin_wloc"}

InMerge(w) == w_pc[w] \in MergePcs /\ w_frame[w] = 0

\* the entry point has a barrier at the end of its loop
Barriered ==
  cfg.backend = "cilk" \/
    cfg.policy \notin {"NowaitAuto", "NowaitStatic", "NowaitStaticChunk"}

\* while the call is after its loop every iteration has been started and has
\* finished, at most one worker is in the merge and none is in it at any
\* other time; when the call has returned no worker is busy
AfterBarrier ==
  (~cfg.segmented /\ Barriered) =>
    /\ f_pc[0] = "post" =>
         /\ f_todo[0] = {}
         /\ \A w \in Active : w_pc[w] \notin BodyPcs \cup {"omp_body", "loop"}
         /\ \A i \in 0 .. MaxIdx : count[i] = Visits(cfg.is[1], i)
    /\ \A w, u \in Active : (InMerge(w) /\ InMerge(u)) => w = u
    /\ \A w \in Active : InMerge(w) => f_pc[0] = "post"
    /\ f_pc[0] = "done" => \A w \in Active : w_pc[w] = "idle"

\* the caller's accumulators change only after the loop and before the
\* return, and the call is after its loop once: it gets there from the loop
\* and leaves only by returning
MergeOnce ==
  (~cfg.segmented /\ Barriered) =>
    /\ (sum' # sum \/ min' # min \/ loc' # loc) => f_pc[0] = "post"
    /\ (f_pc[0] # "post" /\ f_pc'[0] = "post") => f_pc[0] = "loop"
    /\ f_pc[0] = "post" => f_pc'[0] \in {"post", "done"}
    /\ f_pc[0] = "done" => f_pc'[0] = "done"

\* C12: for every barriered flat entry point the merge step starts only
\* after every loop-body invocation has finished, runs once and on a single
\* worker, is the only step that writes the caller's accumulators, and the
\* call returns only after it.
C12_MergeAfterBarrier == [](AfterBarrier) /\ [][MergeOnce]_vars

\* C12 witness: the merge loop of a forall_sum run by two workers is under
\* way: *sum has changed and the second slot, non-zero, is still to add.
C12_Witness ==
  /\ ~cfg.segmented
  /\ cfg.backend = "cilk"
  /\ cfg.op = "forall_sum"
  /\ f_pc[0] = "post"
  /\ \E w \in Active : InMerge(w)
  /\ sum # cfg.sum0
  /\ f_i[0] = 1
  /\ sum_tmp[0][1] # 0

\* a flat forall over a strided range with begin < end and stride >= 1
FlatStridedForall ==
  /\ ~cfg.segmented
  /\ cfg.op = "forall"
  /\ cfg.is[1].type = "RangeStride"
  /\ cfg.is[1].begin < cfg.is[1].end
  /\ cfg.is[1].stride >= 1

\* i is one of begin, begin + stride, begin + 2*stride, ... below end
OnStride(it, i) ==
  it.begin <= i /\ i < it.end /\ (i - it.begin) % it.stride = 0

\* C13: a flat forall over a strided range with begin < end and stride >= 1
\* invokes the loop body at most once per index while it runs and, when it
\* has returned, exactly once for each of begin, begin + stride, ... below
\* end and never for another index.
C13_StridedExactlyOnce ==
  FlatStridedForall =>
    \A i \in 0 .. MaxIdx :
      LET want == IF OnStride(cfg.is[1], i) THEN 1 ELSE 0 IN
        /\ count[i] <= want
        /\ f_pc[0] = "done" => count[i] = want

\* C13 witness: a strided forall with stride >= 2, run by two workers, has
\* returned having visited at least two indices and skipped one in between.
C13_Witness ==
  /\ FlatStridedForall
  /\ cfg.is[1].stride >= 2
  /\ nthreads >= 2
  /\ f_pc[0] = "done"
  /\ Cardinality({i \in 0 .. MaxIdx : count[i] = 1}) >= 2
  /\ \E i \in 0 .. MaxIdx :
       cfg.is[1].begin < i /\ i < cfg.is[1].end - 1 /\ count[i] = 0

\* C14: when a flat forall_minloc over a non-empty collection has returned,
\* *min and *loc are both as before the call if no index proposed a
\* candidate strictly smaller than the prior *min, and otherwise both have
\* been updated: *min is smaller than before and *loc is an index of the
\* collection.
C14_UpdatedTogether ==
  (/\ ~cfg.segmented
   /\ cfg.op = "forall_minloc"
   /\ IterSpace(cfg.is[1]) # {}
   /\ f_pc[0] = "done") =>
    IF \E i \in Indices(cfg.is[1]) : v(i) < cfg.min0
      THEN min < cfg.min0 /\ loc \in Indices(cfg.is[1])
      ELSE min = cfg.min0 /\ loc = cfg.loc0

\* C14 witness: a forall_minloc run by two workers over a collection with a
\* candidate equal to the prior *min and a strictly smaller one has returned
\* with both accumulators updated.
C14_Witness ==
  /\ ~cfg.segmented
  /\ cfg.op = "forall_minloc"
  /\ nthreads >= 2
  /\ f_pc[0] = "done"
  /\ \E i, j \in Indices(cfg.is[1]) : v(i) = cfg.min0 /\ v(j) < cfg.min0
  /\ min < cfg.min0
  /\ loc \in Indices(cfg.is[1])

\* the greatest element of a non-empty set of values
Highest(S) == CHOOSE m \in S : \A n \in S : m >= n

\* C15 (as claimed): when a flat forall_maxloc over a non-empty collection
\* has returned, *max is the maximum of its prior value and all candidates
\* v(i), and *max and *loc are as before the call when no candidate is
\* strictly greater than the prior *max.
C15_MaxIsTrueMaximum ==
  (/\ ~cfg.segmented
   /\ cfg.op = "forall_maxloc"
   /\ IterSpace(cfg.is[1]) # {}
   /\ f_pc[0] = "done") =>
    /\ min = Highest({cfg.min0} \cup {v(i) : i \in Indices(cfg.is[1])})
    /\ (\A i \in Indices(cfg.is[1]) : v(i) <= cfg.min0) =>
         (min = cfg.min0 /\ loc = cfg.loc0)

\* the segments of the hybrid index set the switch has a case for
Handled == {j \in 1 .. NumSeg : HasCase(cfg.is[j].type)}

HandledIndices == UNION {Indices(cfg.is[j]) : j \in Handled}

\* C16 (as claimed): a segmented forall_minloc over a collection that holds
\* segments without a case, and otherwise nothing or one segment of one
\* index (so that the call without the segments without a case has one
\* outcome), returns having invoked the loop body for no index of a segment
\* without a case and with *min and *loc as that outcome: the minimum of the
\* prior *min and the candidates of the other segment, at the index that
\* produced it, or both unchanged.
C16_NoCaseNoEffect ==
  (/\ cfg.segmented
   /\ cfg.op = "forall_minloc"
   /\ Handled # 1 .. NumSeg
   /\ Cardinality(Handled) <= 1
   /\ \A j \in Handled : Cardinality(IterSpace(cfg.is[j])) = 1
   /\ f_pc[0] = "done") =>
    /\ \A i \in 0 .. MaxIdx : i \notin HandledIndices => count[i] = 0
    /\ min = Lowest({cfg.min0} \cup {v(i) : i \in HandledIndices})
    /\ IF min = cfg.min0 THEN loc = cfg.loc0
                         ELSE loc \in HandledIndices /\ v(loc) = min

FlatOnEitherBackend ==
  /\ ~cfg.segmented
  /\ cfg.op \in {"forall", "forall_sum"}
  /\ cfg.is[1].type = "Range"

\* every loop-body invocation the iterable calls for has been made and has
\* returned
AllInvoked ==
  /\ f_todo[0] = {}
  /\ \A i \in 0 .. MaxIdx : count[i] = Visits(cfg.is[1], i)
  /\ \A w \in Active : w_pc[w] \notin BodyPcs \cup {"omp_body"}

\* the invocations made so far are among those the iterable calls for,
\* whatever the backend, and after the loop they are all of them
SameInvocations ==
  FlatOnEitherBackend =>
    /\ \A i \in 0 .. MaxIdx : count[i] <= Visits(cfg.is[1], i)
    /\ f_pc[0] \in {"post", "done"} => AllInvoked

\* a step of the reduction merge: the caller's sum changes, or the reduction
\* parameter of a running forall_impl is combined
MergeStep ==
  \/ sum' # sum
  \/ f_pc[0] # "none" /\ f_params' # f_params

MergeAfterAll == (FlatOnEitherBackend /\ MergeStep) => AllInvoked

\* C19: on flat iteration the Cilk backend and the OpenMP backend make the
\* same loop-body invocations for the same iterable: the count per index
\* depends on the iterable alone, one for each index of the range and none
\* for another, and on both the reduction merge takes a step only when all
\* of them have been made and have returned.
C19_BackendsEquivalent == [](SameInvocations) /\ [][MergeAfterAll]_vars

\* C19 witness: an OpenMP forall_impl with a sum parameter, two threads and
\* a range of two indices not starting at 0, has combined a non-zero value
\* after all invocations and has not resolved it yet.
C19_Witness ==
  /\ FlatOnEitherBackend
  /\ cfg.backend = "omp"
  /\ cfg.op = "forall_sum"
  /\ nthreads >= 2
  /\ cfg.is[1].begin >= 1
  /\ cfg.is[1].end - cfg.is[1].begin >= 2
  /\ f_pc[0] = "post"
  /\ f_params # 0
  /\ AllInvoked

\* a flat forall_sum of the Cilk backend
FlatForallSum == ~cfg.segmented /\ cfg.backend = "cilk" /\ cfg.op = "forall_sum"

\* what the slots i .. nthreads-1 of the call hold together
RECURSIVE SlotSum(_)
SlotSum(i) == IF i >= nthreads THEN 0 ELSE sum_tmp[0][i] + SlotSum(i + 1)

\* before the first loop-body invocation every slot holds 0; when the loop
\* is over the slots hold together the total of the loop, whatever their
\* number; the result is the prior sum plus that total
SlotsHoldTotal ==
  FlatForallSum =>
    /\ (f_pc[0] = "loop" /\ \A i \in 0 .. MaxIdx : count[i] = 0) =>
         \A i \in Active : sum_tmp[0][i] = 0
    /\ f_pc[0] \in {"post", "done"} => SlotSum(0) = Total(cfg.is[1])
    /\ f_pc[0] = "done" => sum = cfg.sum0 + Total(cfg.is[1])

\* once the slots are set up, slot i changes only when worker i stores the
\* result of a loop-body invocation it has run
SlotWrittenByOwner ==
  FlatForallSum =>
    \A i \in Active :
      (f_pc[0] # "none" /\ sum_tmp'[0][i] # sum_tmp[0][i]) =>
        (w_pc[i] = "body_wr" /\ w_frame[i] = 0)

\* C20: in forall_sum every slot holds 0 before the first loop-body
\* invocation, a slot is written only by its own worker running an
\* iteration, so that the slot of a worker that runs none still holds 0 at
\* the merge, and the merged result is the prior sum plus the total of the
\* loop however many slots were allocated.
C20_UnusedSlotsAreZero == [](SlotsHoldTotal) /\ [][SlotWrittenByOwner]_vars

\* C20 witness: a forall_sum with two slots over at least two indices, each
\* adding a positive value, has returned with the second slot still 0 (its
\* worker ran no iteration) and the expected result.
C20_Witness ==
  /\ FlatForallSum
  /\ nthreads >= 2
  /\ Cardinality(IterSpace(cfg.is[1])) >= 2
  /\ \A x \in IterSpace(cfg.is[1]) : v(BodyArg(cfg.is[1], x)) > 0
  /\ f_pc[0] = "done"
  /\ sum_tmp[0][1] = 0
  /\ sum_tmp[0][0] = Total(cfg.is[1])
  /\ sum = cfg.sum0 + Total(cfg.is[1])

\* the steps of an OpenMP forall_impl / forall_impl_nowait
OmpInits == f_pc[0] = "none" /\ f_pc'[0] = "loop"

OmpCombines == f_pc[0] = "loop" /\ f_pc'[0] = "post"

OmpResolves == f_pc[0] = "post" /\ f_pc'[0] = "done"

\* a loop body runs, and has run, only between init and the end of the
\* region
OmpBodyInRegion ==
  cfg.backend = "omp" =>
    /\ \A t \in Active : w_pc[t] = "omp_body" => f_pc[0] = "loop"
    /\ f_pc[0] = "none" => \A i \in 0 .. MaxIdx : count[i] = 0

\* init, the combination and resolve each happen once and in this order;
\* init leaves every private copy equal to the value it gave f_params, the
\* combination adds every private copy once, resolve delivers the value
\* combined; a loop body starts only inside the region and f_params and the
\* caller's sum change at no other step
OmpProtocolStep ==
  cfg.backend = "omp" =>
    /\ f_pc'[0] # f_pc[0] => (OmpInits \/ OmpCombines \/ OmpResolves)
    /\ OmpInits => /\ f_params' = init(f_params)
                   /\ \A t \in Active : sum_tmp'[0][t] = f_params'
    /\ OmpCombines => /\ f_params' = f_params + SlotSum(0)
                      /\ sum_tmp' = sum_tmp
    /\ OmpResolves => /\ f_params' = f_params
                      /\ cfg.op = "forall_sum" => sum' = resolve(f_params, sum)
    /\ count' # count => (f_pc[0] = "loop" /\ f_pc'[0] = "loop")
    /\ f_params' # f_params => (OmpInits \/ OmpCombines)
    /\ sum' # sum => OmpResolves
    /\ f_pc[0] \in {"post", "done"} => sum_tmp' = sum_tmp

\* C21: every OpenMP forall_impl / forall_impl_nowait overload calls
\* ParamMultiplexer::init once before the region, invokes the loop body only
\* between init and the end of the region, and calls resolve once after it;
\* every private copy of f_params starts from the value init left and is
\* combined into f_params once, at the end of the region.
C21_OmpParamProtocol == [](OmpBodyInRegion) /\ [][OmpProtocolStep]_vars

\* C21 witness: a forall_impl has resolved, after two threads each added a
\* non-zero value to their private copy and the copies were combined.
C21_Witness ==
  /\ cfg.backend = "omp"
  /\ cfg.op = "forall_sum"
  /\ nthreads >= 2
  /\ f_pc[0] = "done"
  /\ sum_tmp[0][0] # 0
  /\ sum_tmp[0][1] # 0
  /\ f_params = sum_tmp[0][0] + sum_tmp[0][1]
  /\ sum = cfg.sum0 + f_params

\* a forall_impl_nowait overload: omp for nowait inside omp parallel
OmpNowait ==
  /\ cfg.backend = "omp"
  /\ cfg.policy \in {"NowaitAuto", "NowaitStatic", "NowaitStaticChunk"}

OmpBodyRunning == \E t \in Active : w_pc[t] = "omp_body"

\* once the region is over no loop body is running, none is left to run or
\* unfinished, and every thread is back to idle
NowaitRegionJoins ==
  OmpNowait =>
    (f_pc[0] \in {"post", "done"} =>
       /\ ~OmpBodyRunning
       /\ f_todo[0] = {}
       /\ \A i \in 0 .. MaxIdx : count[i] = Visits(cfg.is[1], i)
       /\ \A t \in Active : w_pc[t] = "idle")

\* the region ends, resolve runs and the function returns only in a step
\* taken while no loop body is running, and no loop body starts afterwards
NowaitStepsAfterBodies ==
  OmpNowait =>
    /\ (f_pc'[0] \in {"post", "done"} /\ f_pc'[0] # f_pc[0]) => ~OmpBodyRunning
    /\ (sum' # sum \/ f_params' # f_params) => ~OmpBodyRunning
    /\ f_pc[0] \in {"post", "done"} => count' = count

\* C22: in the forall_impl_nowait overloads resolve is never executed and
\* the function never returns while a loop body of the call is running:
\* threads pass the end of the nowait loop without waiting, but the end of
\* the enclosing parallel region joins them all before the function goes on.
C22_NowaitStillJoins == [](NowaitRegionJoins) /\ [][NowaitStepsAfterBodies]_vars

\* C22 witness: in a forall_impl_nowait with a sum parameter the master
\* thread has passed the end of the loop while another thread is running a
\* loop body; the region has not ended.
C22_Witness ==
  /\ OmpNowait
  /\ cfg.op = "forall_sum"
  /\ nthreads >= 2
  /\ f_pc[0] = "loop"
  /\ w_pc[0] = "omp_end"
  /\ \E t \in Active : w_pc[t] = "omp_body"

\* the order of the entry point: below for forall_minloc, above for
\* forall_maxloc
Improves(now, before) ==
  IF cfg.op = "forall_maxloc" THEN now > before ELSE now < before

\* the caller's value is at least as good as it was on entry
NotWorse(now, before) == now = before \/ Improves(now, before)

\* at every moment of a call the caller's value is no worse than on entry,
\* and the caller's location differs from the one on entry only if the value
\* has strictly improved
OuterImproves ==
  IsMinMax =>
    /\ NotWorse(min, cfg.min0)
    /\ loc # cfg.loc0 => Improves(min, cfg.min0)

\* every store to the caller's value strictly improves it, and the caller's
\* location is stored only after such a store
OuterStores ==
  IsMinMax =>
    /\ min' # min => Improves(min', min)
    /\ loc' # loc => Improves(min, cfg.min0)

\* C23: the caller-level forall_minloc never raises *min and forall_maxloc
\* never lowers *max, under every interleaving of the workers on the shared
\* temporaries, and *loc is modified only in a call that strictly changes
\* the value.
C23_OuterNeverWorse == [](OuterImproves) /\ [][OuterStores]_vars

\* C23 witness: a two-worker forall_maxloc has returned with a greater *max
\* and a new *loc, though not with the greatest candidate: the workers raced
\* on the shared temporary.
C23_Witness ==
  /\ ~cfg.segmented
  /\ cfg.op = "forall_maxloc"
  /\ nthreads >= 2
  /\ f_pc[0] = "done"
  /\ min > cfg.min0
  /\ loc # cfg.loc0
  /\ \E x \in Indices(cfg.is[1]) : v(x) > min

\* a flat call over an indirection array idx of length len
OverIndexArray == ~cfg.segmented /\ cfg.is[1].type = "Unstructured"

\* the positions k of idx whose loop-body invocation has been started
Invoked == {k \in 0 .. MaxIdx : k < Len(cfg.is[1].idx)} \ f_todo[0]

\* the number of positions among S that hold the index value i
Occurrences(S, i) == Cardinality({k \in S : cfg.is[1].idx[k + 1] = i})

\* while the call runs each index value has been handed to the loop body as
\* often as it occurs at the positions invoked so far; when the call has
\* returned every position of [0, len) has been invoked
OncePerPosition ==
  (OverIndexArray /\ f_pc[0] # "none") =>
    /\ \A i \in 0 .. MaxIdx : count[i] = Occurrences(Invoked, i)
    /\ f_pc[0] \in {"post", "done"} => Cardinality(Invoked) = Len(cfg.is[1].idx)

\* an invocation takes one position k that was not taken before and hands
\* idx[k] to the loop body; idx, like the rest of the call, is not modified
PositionStep ==
  OverIndexArray =>
    /\ count' # count =>
         \E k \in f_todo[0] :
           /\ f_todo'[0] = f_todo[0] \ {k}
           /\ count' = [count EXCEPT ![cfg.is[1].idx[k + 1]] = @ + 1]
    /\ cfg' = cfg

\* C24: over an indirection array idx of length len, forall, forall_sum,
\* forall_minloc and forall_maxloc invoke the loop body exactly once per
\* position k in [0, len) with argument idx[k]: len invocations in all, an
\* index value that occurs m times visited m times, idx never modified.
C24_IndirectionOncePerPosition == [](OncePerPosition) /\ [][PositionStep]_vars

\* C24 witness: a two-worker call over an array that names the same index
\* twice has returned, having visited that index twice.
C24_Witness ==
  /\ OverIndexArray
  /\ nthreads >= 2
  /\ Len(cfg.is[1].idx) = 2
  /\ cfg.is[1].idx[1] = cfg.is[1].idx[2]
  /\ f_pc[0] = "done"
  /\ count[cfg.is[1].idx[1]] = 2

\* worker w is inside a loop-body invocation
InBody(w) == w_pc[w] \in {"body", "body_wr", "omp_body"}

\* a loop-body invocation of worker w never returns
BodyNeverReturns(w) == <>[](InBody(w))

\* C25: with the workers scheduled fairly, every flat and segmented
\* dispatch over a finite iterable with stride >= 1 returns to the caller
\* unless one of its loop-body invocations never returns: if every
\* invocation returns the dispatch does, and a dispatch that never returns
\* has an invocation that never does.
C25_EventuallyReturns ==
  <>(f_pc[0] = "done") \/ \E w \in Workers : BodyNeverReturns(w)

\* C25 witness: a segmented forall over two non-empty segments, run by two
\* workers, has returned after visiting every index.
C25_Witness ==
  /\ cfg.segmented
  /\ cfg.op = "forall"
  /\ nthreads >= 2
  /\ NumSeg = 2
  /\ \A j \in 1 .. NumSeg : HasCase(cfg.is[j].type) /\ IterSpace(cfg.is[j]) # {}
  /\ f_pc[0] = "done"
  /\ \A i \in AllIndices : count[i] = 1

====
